---- MODULE Spec2Model ----
(***************************************************************************)
(* PHIL-FTP: the client (src/Client/cli.py) and the thread-per-connection  *)
(* server (src/Server/serv.py) as one state machine.  Each session s is a  *)
(* client process, its control connection, its per-command data connection *)
(* and the server's ClientThread for it.  All server threads share the     *)
(* server directory and the one file lock.                                 *)
(*                                                                         *)
(* Text is a sequence of code points, a socket carries a sequence of bytes *)
(* (0..255); str.encode / bytes.decode and struct.pack / unpack are        *)
(* computed as Python computes them.                                       *)
(***************************************************************************)
EXTENDS Integers, Sequences, FiniteSets, TLC

\* ------------------------------------------------------------------ bounds

\* User inputs accepted over the whole run (all clients together).
MaxCmds == 2

\* The control connections the server has accepted.
Sessions == {1, 2}

\* ------------------------------------------------------------ text, bytes

Ord ==
    ("l" :> 108) @@ ("s" :> 115) @@ ("q" :> 113) @@ ("u" :> 117) @@
    ("i" :> 105) @@ ("t" :> 116) @@ ("g" :> 103) @@ ("e" :> 101) @@
    ("p" :> 112) @@ ("a" :> 97)  @@ ("b" :> 98)  @@ ("x" :> 120) @@
    ("f" :> 102) @@ ("o" :> 111) @@ ("h" :> 104) @@ ("y" :> 121) @@
    ("k" :> 107) @@ ("." :> 46)  @@ (" " :> 32)  @@ ("!" :> 33)  @@
    ("\n" :> 10) @@ ("S" :> 83)  @@ ("F" :> 70)  @@ ("E" :> 233)

\* A text literal: Txt(<<"l", "s">>) is 'ls'.  "E" stands for U+00E9.
Txt(cs) == [i \in 1..Len(cs) |-> Ord[cs[i]]]

Min(a, b) == IF a < b THEN a ELSE b

\* s[:n]
Take(s, n) == SubSeq(s, 1, Min(n, Len(s)))

\* s[n:]
Drop(s, n) == SubSeq(s, Min(n, Len(s)) + 1, Len(s))

\* The characters str.split() separates on.
Whitespace == {32, 9, 10, 11, 12, 13}

\* 1, 2, ..., n
Indices(n) == [i \in 1..n |-> i]

\* str.split(): the maximal runs of non-whitespace characters, in order.
\* A run starts where a character follows whitespace or nothing, and ends
\* where one is followed by whitespace or nothing.
Split(s) ==
    LET starts == SelectSeq(Indices(Len(s)),
                    LAMBDA i : s[i] \notin Whitespace
                               /\ (i = 1 \/ s[i - 1] \in Whitespace))
        ends   == SelectSeq(Indices(Len(s)),
                    LAMBDA i : s[i] \notin Whitespace
                               /\ (i = Len(s) \/ s[i + 1] \in Whitespace))
    IN  [k \in 1..Len(starts) |-> SubSeq(s, starts[k], ends[k])]

\* str.endswith('.')
EndsWithDot(s) == Len(s) > 0 /\ s[Len(s)] = 46

\* str.startswith('.')
StartsWithDot(s) == Len(s) > 0 /\ s[1] = 46

\* str.encode('utf-8'), for code points below U+0800: one byte below
\* U+0080, else two.  The text is encoded half by half.
RECURSIVE Utf8Encode(_)
Utf8Encode(t) ==
    IF t = <<>> THEN <<>>
    ELSE IF Len(t) = 1
    THEN IF t[1] < 128
         THEN << t[1] >>
         ELSE << 192 + (t[1] \div 64), 128 + (t[1] % 64) >>
    ELSE Utf8Encode(SubSeq(t, 1, Len(t) \div 2))
         \o Utf8Encode(SubSeq(t, Len(t) \div 2 + 1, Len(t)))

\* The lead byte of a two-byte sequence, and a continuation byte.
IsLead(x) == x >= 194 /\ x <= 223

IsCont(x) == x >= 128 /\ x <= 191

\* Whether bytes.decode('utf-8') returns (it raises UnicodeDecodeError
\* otherwise): every byte is ASCII, a lead byte followed by a continuation
\* byte, or a continuation byte that follows a lead byte.
Utf8Valid(b) ==
    \A i \in 1..Len(b) :
        \/ b[i] < 128
        \/ IsLead(b[i]) /\ i < Len(b) /\ IsCont(b[i + 1])
        \/ IsCont(b[i]) /\ i > 1 /\ IsLead(b[i - 1])

\* bytes.decode('utf-8') of valid input: one character for each byte that is
\* not a continuation byte.
Utf8Decode(b) ==
    LET starts == SelectSeq(Indices(Len(b)), LAMBDA i : ~IsCont(b[i]))
    IN  [k \in 1..Len(starts) |->
           IF b[starts[k]] < 128
           THEN b[starts[k]]
           ELSE (b[starts[k]] - 192) * 64 + (b[starts[k] + 1] - 128)]

\* struct.pack('!B', n), struct.pack('!H', n), struct.pack('!I', n)
PackB(n) == <<n>>

PackH(n) == <<n \div 256, n % 256>>

PackI(n) == <<n \div 16777216, (n \div 65536) % 256, (n \div 256) % 256, n % 256>>

\* struct.unpack of the same formats
UnpackB(b) == b[1]

UnpackH(b) == b[1] * 256 + b[2]

UnpackI(b) == ((b[1] * 256 + b[2]) * 256 + b[3]) * 256 + b[4]

\* The one-byte statuses.
StatusS == Txt(<<"S">>)

StatusF == Txt(<<"F">>)

\* ---------------------------------------------------------- command texts

TxtLs == Txt(<<"l", "s">>)

TxtQuit == Txt(<<"q", "u", "i", "t">>)

TxtGet == Txt(<<"g", "e", "t">>)

TxtPut == Txt(<<"p", "u", "t">>)

NameA == Txt(<<"a">>)

NameB == Txt(<<"b">>)

NameDot == Txt(<<".", "h">>)

Sp == Txt(<<" ">>)

\* What the user may type at the prompt.
UserInputs ==
    { TxtLs, TxtQuit,
      TxtGet \o Sp \o NameA, TxtGet \o Sp \o NameB, TxtGet \o Sp \o NameDot,
      TxtPut \o Sp \o NameA, TxtPut \o Sp \o NameB, TxtPut \o Sp \o NameDot,
      Txt(<<"g", "e", "t", "x", " ", "b">>),
      Txt(<<"f", "o", "o">>),
      TxtGet }

\* Command texts a peer that is not cli.py may put in a control frame.
ForeignTexts ==
    { TxtGet,
      TxtGet \o Sp \o NameA \o Sp \o NameB,
      Txt(<<"f", "o", "o">>),
      TxtLs \o Sp,
      <<>> }

\* ------------------------------------------------------------ file systems

\* A directory: a function from the names that exist to the files' bytes.
EmptyDir == [n \in {} |-> <<>>]

WriteFile(dir, name, bytes) ==
    [n \in DOMAIN dir \cup {name} |-> IF n = name THEN bytes ELSE dir[n]]

\* os.path.exists(name)
Exists(dir, name) == name \in DOMAIN dir

\* Lexicographic order on names, as ls sorts them.
RECURSIVE LexLess(_, _)
LexLess(x, y) ==
    IF x = <<>> THEN y # <<>>
    ELSE IF y = <<>> THEN FALSE
    ELSE IF Head(x) # Head(y) THEN Head(x) < Head(y)
    ELSE LexLess(Tail(x), Tail(y))

\* The output of 'ls': the names not starting with '.', sorted, one a line.
RECURSIVE ListingOf(_)
ListingOf(names) ==
    IF names = {} THEN <<>>
    ELSE LET first == CHOOSE n \in names : \A m \in names \ {n} : LexLess(n, m)
         IN  Utf8Encode(first) \o Txt(<<"\n">>) \o ListingOf(names \ {first})

Listing(dir) == ListingOf({n \in DOMAIN dir : ~StartsWithDot(n)})

\* The server directory at start-up: empty, or holding one file.
ServerDirs == { EmptyDir, WriteFile(EmptyDir, NameB, Utf8Encode(Txt(<<"o", "k">>))) }

\* Each client's working directory at start-up.
ClientDir(s) ==
    IF s = 1
    THEN WriteFile(EmptyDir, NameA, Utf8Encode(Txt(<<"h", "i">>)))
    ELSE WriteFile(WriteFile(WriteFile(EmptyDir,
             NameA, Utf8Encode(Txt(<<"y", "o">>))),
             NameB, Utf8Encode(Txt(<<"E", "!">>))),
             NameDot, Utf8Encode(Txt(<<"x">>)))

\* The port the operating system gives the client's listening socket.
EphemeralPort(s) == 49152 + s

\* The host serv.py runs on, and the hosts a client may run on.  An address
\* is written as the host it belongs to.  serv.py binds the name
\* 'localhost': a client on another host has a session only where that name
\* resolves to an address of the server host that other hosts can reach.
ServerHost == "server"

Hosts == {ServerHost, "remote"}

\* ------------------------------------------------------------------ state

VARIABLES
    sfs,        \* the server's working directory
    locked,     \* _FILE_LOCK is held
    cfs,        \* cfs[s]: the client's working directory
    cpc,        \* cpc[s]: where the client is: "prompt", "xfer", "put_wait",
                \*         "status", "exited", or "foreign" (a peer not cli.py)
    ccmd,       \* ccmd[s]: the text read at the prompt (command, in main)
    cdata,      \* cdata[s]: the text received on the data connection (data)
    csock,      \* csock[s]: the client's control socket, "open" or "closed"
    c2s,        \* c2s[s]: bytes in flight on the control connection, to the server
    s2c,        \* s2c[s]: status bytes in flight to the client, each with the
                \*         number of the control frame the server was serving
    dch,        \* dch[s]: the data connection of the command under way
    spc,        \* spc[s]: where the server thread is
    running,    \* self.running
    command,    \* self.command
    filename,   \* self.filename
    ephemeral,  \* self.ephemeral
    sconn,      \* self.connection: "open", or "none" after kill()
    sdatum,     \* the last datum _recv received in its loop
    sev,        \* sev[s]: what the server thread did for the frame it last read
    sseq,       \* sseq[s]: control frames the server thread has read
    stext,      \* stext[s]: the command text of the last of them
    cseq,       \* cseq[s]: control frames cli.py has sent
    cstat,      \* cstat[s]: the status bytes cli.py read for its current command
    cput,       \* cput[s]: the text cli.py last uploaded
    issued,     \* inputs accepted so far
    chost,      \* chost[s]: the host the client of session s runs on
    killed      \* killed[s]: main has called kill() on the thread, shutting down

vars == <<sfs, locked, cfs, cpc, ccmd, cdata, csock, c2s, s2c, dch, spc, running,
          command, filename, ephemeral, sconn, sdatum, sev, sseq, stext, cseq,
          cstat, cput, issued, chost, killed>>

clientVars == <<cfs, cpc, ccmd, cdata, csock, cseq, cstat, cput>>

serverVars == <<sfs, locked, spc, running, command, filename, ephemeral, sconn,
                sdatum, sev, sseq, stext>>

\* What neither a client nor a server thread changes.
envVars == <<chost, killed>>

\* No data connection.
NoData ==
    [listen |-> FALSE, port |-> 0, conn |-> FALSE, s2c |-> <<>>, c2s |-> <<>>,
     cclosed |-> FALSE, sclosed |-> FALSE]

\* None: the value of a text variable that holds no text.
NoText == <<>>

Init ==
    /\ sfs \in ServerDirs
    /\ locked = FALSE
    /\ cfs = [s \in Sessions |-> ClientDir(s)]
    /\ cpc = [s \in Sessions |-> "prompt"]
    /\ ccmd = [s \in Sessions |-> NoText]
    /\ cdata = [s \in Sessions |-> NoText]
    /\ csock = [s \in Sessions |-> "open"]
    /\ c2s = [s \in Sessions |-> <<>>]
    /\ s2c = [s \in Sessions |-> <<>>]
    /\ dch = [s \in Sessions |-> NoData]
    /\ spc = [s \in Sessions |-> "read"]
    /\ running = [s \in Sessions |-> TRUE]
    /\ command = [s \in Sessions |-> NoText]
    /\ filename = [s \in Sessions |-> NoText]
    /\ ephemeral = [s \in Sessions |-> 0]
    /\ sconn = [s \in Sessions |-> "open"]
    /\ sdatum = [s \in Sessions |-> "none"]
    /\ sev = [s \in Sessions |-> <<>>]
    /\ sseq = [s \in Sessions |-> 0]
    /\ stext = [s \in Sessions |-> NoText]
    /\ cseq = [s \in Sessions |-> 0]
    /\ cstat = [s \in Sessions |-> <<>>]
    /\ cput = [s \in Sessions |-> NoText]
    /\ issued = 0
    /\ chost \in [Sessions -> Hosts]
    /\ killed = [s \in Sessions |-> FALSE]

\* ----------------------------------------------------------------- client

\* get_command: the command, or '' for a rejected one.
GetCommand(text) ==
    IF text \in {TxtLs, TxtQuit} THEN text
    ELSE IF Take(text, 3) \in {TxtGet, TxtPut} /\ Len(Split(text)) = 2 THEN text
    ELSE NoText

\* The control frame pack_and_send builds.
ControlFrame(payload, port) ==
    PackB(Len(payload)) \o PackH(port) \o Utf8Encode(payload)

\* The literal frame sent for quit.
QuitFrame == PackB(4) \o PackH(0) \o Utf8Encode(TxtQuit)

\* The data frame put and the server's get build: the length of the TEXT,
\* then the text's bytes.
TextFrame(text) == PackI(Len(text)) \o Utf8Encode(text)

\* disconnect_and_exit, or the process ending in any other way: every socket
\* of the client is closed.
ClientGone(s) ==
    /\ cpc' = [cpc EXCEPT ![s] = "exited"]
    /\ csock' = [csock EXCEPT ![s] = "closed"]
    /\ dch' = [dch EXCEPT ![s].listen = FALSE, ![s].cclosed = TRUE]

\* The address cli.py binds its listening socket to: _HOST, the server's
\* address given on the command line.
BindHost(s) == ServerHost

\* bind() succeeds for an address of the host it is called on; for any other
\* it raises OSError, which nothing in cli.py catches.
CanBind(s) == BindHost(s) = chost[s]

\* pack_and_send up to the accept: the listening socket is opened and the
\* control frame, carrying its port, is written.
PackAndSend(s, payload, next) ==
    IF Len(payload) > 255 \/ ~CanBind(s)
    THEN /\ ClientGone(s)
         /\ UNCHANGED <<c2s, cseq, cstat>>
    ELSE /\ dch' = [dch EXCEPT ![s] =
                       [NoData EXCEPT !.listen = TRUE, !.port = EphemeralPort(s)]]
         /\ c2s' = [c2s EXCEPT ![s] = @ \o ControlFrame(payload, EphemeralPort(s))]
         /\ cseq' = [cseq EXCEPT ![s] = @ + 1]
         /\ cstat' = [cstat EXCEPT ![s] = <<>>]
         /\ cpc' = [cpc EXCEPT ![s] = next]
         /\ UNCHANGED csock

\* main's loop body for one line typed at the prompt: get_command, then
\* execute_command up to the first point where ls, get or put blocks.
UserInput(s, text) ==
    /\ cpc[s] = "prompt"
    /\ issued < MaxCmds
    /\ issued' = issued + 1
    /\ ccmd' = [ccmd EXCEPT ![s] = text]
    /\ LET cmd == GetCommand(text) IN
         IF cmd = NoText
         THEN UNCHANGED <<cpc, csock, dch, c2s, cseq, cstat>>
         ELSE IF cmd = TxtQuit
         THEN /\ c2s' = [c2s EXCEPT ![s] = @ \o QuitFrame]
              /\ ClientGone(s)
              /\ UNCHANGED <<cseq, cstat>>
         ELSE IF cmd = TxtLs
         THEN PackAndSend(s, cmd, "xfer")
         ELSE IF Take(cmd, 3) = TxtGet
         THEN IF Exists(cfs[s], Split(cmd)[2])
              THEN UNCHANGED <<cpc, csock, dch, c2s, cseq, cstat>>
              ELSE PackAndSend(s, cmd, "xfer")
         ELSE IF ~Exists(cfs[s], Split(cmd)[2])
              THEN UNCHANGED <<cpc, csock, dch, c2s, cseq, cstat>>
              ELSE PackAndSend(s, cmd, "put_wait")
    /\ UNCHANGED <<cfs, cdata, cput, s2c>>
    /\ UNCHANGED <<serverVars, envVars>>

\* input() raises EOFError (standard input is closed) or the process is
\* killed at the prompt: main catches neither and the process ends.
ClientEOF(s) ==
    /\ cpc[s] = "prompt"
    /\ ClientGone(s)
    /\ UNCHANGED <<cfs, ccmd, cdata, cseq, cstat, cput, c2s, s2c, issued>>
    /\ UNCHANGED <<serverVars, envVars>>

\* A peer that is not cli.py writes one control frame and stays connected.
ForeignFrame(s, text) ==
    /\ cpc[s] = "prompt"
    /\ issued < MaxCmds
    /\ issued' = issued + 1
    /\ cpc' = [cpc EXCEPT ![s] = "foreign"]
    /\ c2s' = [c2s EXCEPT ![s] = @ \o ControlFrame(text, 0)]
    /\ UNCHANGED <<cfs, ccmd, cdata, csock, cseq, cstat, cput, s2c, dch>>
    /\ UNCHANGED <<serverVars, envVars>>

\* Whether a whole data frame is readable, and its parts.
FrameReady(bytes) == Len(bytes) >= 4 /\ Len(bytes) >= 4 + UnpackI(Take(bytes, 4))

FramePayload(bytes) == SubSeq(bytes, 5, 4 + UnpackI(Take(bytes, 4)))

\* ls and get after pack_and_send: accept the server's connection, recv the
\* data frame, decode it and shut the data socket.  A payload that does not
\* decode raises UnicodeDecodeError, which ends the process.
ClientRecvData(s) ==
    /\ cpc[s] = "xfer"
    /\ dch[s].conn
    /\ FrameReady(dch[s].s2c)
    /\ LET payload == FramePayload(dch[s].s2c) IN
         IF Utf8Valid(payload)
         THEN /\ cdata' = [cdata EXCEPT ![s] = Utf8Decode(payload)]
              /\ cpc' = [cpc EXCEPT ![s] = "status"]
              /\ dch' = [dch EXCEPT ![s].listen = FALSE, ![s].cclosed = TRUE]
              /\ UNCHANGED csock
         ELSE /\ ClientGone(s)
              /\ UNCHANGED cdata
    /\ UNCHANGED <<cfs, ccmd, cseq, cstat, cput, c2s, s2c, issued>>
    /\ UNCHANGED <<serverVars, envVars>>

\* An accept timeout that only unwinds the command under way.
ClientAcceptTimeout_Unwind(s) ==
    /\ cpc[s] \in {"xfer", "put_wait"}
    /\ ~dch[s].conn
    /\ cpc' = [cpc EXCEPT ![s] = "prompt"]
    /\ dch' = [dch EXCEPT ![s].listen = FALSE]
    /\ UNCHANGED <<cfs, ccmd, cdata, csock, cseq, cstat, cput, c2s, s2c, issued>>
    /\ UNCHANGED <<serverVars, envVars>>

\* pack_and_send: accept times out (5 s) before the server has connected.
\* socket.timeout is re-raised and caught in main, which calls
\* disconnect_and_exit.
ClientAcceptTimeout(s) ==
    /\ cpc[s] \in {"xfer", "put_wait"}
    /\ ~dch[s].conn
    /\ ClientGone(s)
    /\ UNCHANGED <<cfs, ccmd, cdata, cseq, cstat, cput, c2s, s2c, issued>>
    /\ UNCHANGED <<serverVars, envVars>>

\* _SOCK.recv(1) finds no byte: b'' once the server has closed the
\* connection, else nothing is returned yet.
StatusEOF(s) == s2c[s] = <<>> /\ sconn[s] = "none"

\* The last step of ls, get and put: read the status byte.  Only get acts
\* on it: 'S' writes the received text to the file.
ClientStatus(s) ==
    /\ cpc[s] = "status"
    /\ s2c[s] # <<>> \/ StatusEOF(s)
    /\ cpc' = [cpc EXCEPT ![s] = "prompt"]
    /\ IF s2c[s] # <<>>
       THEN /\ s2c' = [s2c EXCEPT ![s] = Tail(@)]
            /\ cstat' = [cstat EXCEPT ![s] = Append(@, Head(s2c[s]))]
            /\ IF Take(ccmd[s], 3) = TxtGet /\ <<Head(s2c[s]).b>> = StatusS
               THEN cfs' = [cfs EXCEPT ![s] =
                               WriteFile(@, Split(ccmd[s])[2], Utf8Encode(cdata[s]))]
               ELSE UNCHANGED cfs
       ELSE UNCHANGED <<s2c, cstat, cfs>>
    /\ UNCHANGED <<ccmd, cdata, csock, cseq, cput, c2s, dch, issued>>
    /\ UNCHANGED <<serverVars, envVars>>

\* put after pack_and_send: accept, then read the interim status.  'F' ends
\* the put; 'S' uploads the file as one data frame and shuts the data socket;
\* anything else (b'' included) ends the process.
ClientPutInterim(s) ==
    /\ cpc[s] = "put_wait"
    /\ dch[s].conn
    /\ s2c[s] # <<>> \/ StatusEOF(s)
    /\ IF s2c[s] = <<>>
       THEN /\ ClientGone(s)
            /\ UNCHANGED <<s2c, cstat, cput>>
       ELSE /\ s2c' = [s2c EXCEPT ![s] = Tail(@)]
            /\ cstat' = [cstat EXCEPT ![s] = Append(@, Head(s2c[s]))]
            /\ UNCHANGED csock
            /\ IF <<Head(s2c[s]).b>> = StatusF
               THEN /\ cpc' = [cpc EXCEPT ![s] = "prompt"]
                    /\ dch' = [dch EXCEPT ![s].listen = FALSE, ![s].cclosed = TRUE]
                    /\ UNCHANGED cput
               ELSE LET text == Utf8Decode(cfs[s][Split(ccmd[s])[2]]) IN
                    /\ cpc' = [cpc EXCEPT ![s] = "status"]
                    /\ cput' = [cput EXCEPT ![s] = text]
                    /\ dch' = [dch EXCEPT ![s].listen = FALSE,
                                          ![s].c2s = @ \o TextFrame(text),
                                          ![s].cclosed = TRUE]
    /\ UNCHANGED <<cfs, ccmd, cdata, cseq, c2s, issued>>
    /\ UNCHANGED <<serverVars, envVars>>

\* _SOCK.recv(1) times out (5 s): socket.timeout reaches main, which calls
\* disconnect_and_exit.
ClientStatusTimeout(s) ==
    /\ \/ cpc[s] = "status"
       \/ cpc[s] = "put_wait" /\ dch[s].conn
    /\ s2c[s] = <<>>
    /\ ClientGone(s)
    /\ UNCHANGED <<cfs, ccmd, cdata, cseq, cstat, cput, c2s, s2c, issued>>
    /\ UNCHANGED <<serverVars, envVars>>

\* ----------------------------------------------------------------- server

\* One entry of sev: what was done, and to what (a name, or the bytes sent).
\* The ops: "connect", "dsend", "drecv", "dclose" on the data socket;
\* "csend", "cclose" on the control connection; "lock", "unlock";
\* "listdir", "exists", "read", "write" on the directory.
Ev(op, arg) == [op |-> op, arg |-> arg]

\* The entries of evs with one of the ops, in order.
Only(evs, ops) == SelectSeq(evs, LAMBDA e : e.op \in ops)

RECURSIVE Concat(_)
Concat(ss) == IF ss = <<>> THEN <<>> ELSE Head(ss) \o Concat(Tail(ss))

\* The bytes a run of entries puts on the data socket, and on the control
\* connection (each status with the number k of the frame being served).
DataSent(evs) == Concat([i \in 1..Len(Only(evs, {"dsend"})) |-> Only(evs, {"dsend"})[i].arg])

StatusSent(evs, k) ==
    [i \in 1..Len(Only(evs, {"csend"})) |-> [b |-> Only(evs, {"csend"})[i].arg[1], k |-> k]]

\* The effect on the two connections of the thread doing evs.
Wire(s, evs, k) ==
    /\ s2c' = [s2c EXCEPT ![s] = @ \o StatusSent(evs, k)]
    /\ dch' = [dch EXCEPT ![s].conn = @ \/ Only(evs, {"connect"}) # <<>>,
                          ![s].s2c = @ \o DataSent(evs),
                          ![s].sclosed = @ \/ Only(evs, {"dclose"}) # <<>>]

\* read_command's parse of the command text: the command and filename it
\* stores, and whether it calls kill().
ReadCommand(text, oldname) ==
    IF text \in {TxtLs, TxtQuit}
    THEN [command |-> text, filename |-> oldname, kill |-> FALSE]
    ELSE IF Take(text, 3) \in {TxtGet, TxtPut}
    THEN IF Len(Split(text)) = 2
         THEN [command |-> Split(text)[1], filename |-> Split(text)[2], kill |-> FALSE]
         ELSE [command |-> NoText, filename |-> oldname, kill |-> TRUE]
    ELSE [command |-> NoText, filename |-> oldname, kill |-> TRUE]

\* Whether a whole control frame is readable.
ControlReady(bytes) == Len(bytes) >= 3 /\ Len(bytes) >= 3 + UnpackB(Take(bytes, 1))

\* connection.getsockname()[0]: the local address of the accepted control
\* connection, and connection.getpeername()[0], the client's.
GetSockName(s) == ServerHost

GetPeerName(s) == chost[s]

\* self.client_host, as __init__ sets it.
ClientHost(s) == GetSockName(s)

\* data_socket.connect((self.client_host, self.ephemeral)) succeeds when a
\* socket listens on that host at that port: the client's, if the client
\* could bind it there.
CanConnect(s, port) ==
    /\ dch[s].listen
    /\ ClientHost(s) = BindHost(s)
    /\ BindHost(s) = chost[s]
    /\ dch[s].port = port

\* The thread goes on: its fields, what it did (evs, added to the log when
\* the handler was already under way) and the bytes that put on the wire.
Thread(s, pc, run, cmd, fn, conn, old, evs, k) ==
    /\ spc' = [spc EXCEPT ![s] = pc]
    /\ running' = [running EXCEPT ![s] = run]
    /\ command' = [command EXCEPT ![s] = cmd]
    /\ filename' = [filename EXCEPT ![s] = fn]
    /\ sconn' = [sconn EXCEPT ![s] = conn]
    /\ sev' = [sev EXCEPT ![s] = old \o evs]
    /\ Wire(s, evs, k)

\* The thread dies of an exception nobody catches, after doing evs: nothing
\* is closed.
Crash(s, cmd, fn, old, evs, k) ==
    Thread(s, "crashed", running[s], cmd, fn, sconn[s], old, evs, k)

\* kill(), then run()'s loop ends: the control connection is shut down and
\* closed, and the thread returns.
Terminate(s, fn, old, evs, k) ==
    Thread(s, "terminated", FALSE, NoText, fn, "none", old,
           Append(evs, Ev("cclose", <<>>)), k)

\* What get() sends to refuse a name: a zero-length data frame, then 'F'.
GetRefusal_NoFrame == << Ev("csend", StatusF) >>

GetRefusal == << Ev("dsend", PackI(0)), Ev("csend", StatusF) >>

\* get() whose refusals end the session as a protocol violation would.
ServeGet_RefuseKills(s, cmd, fn, port, k) ==
    IF ~CanConnect(s, port)
    THEN Crash(s, cmd, fn, <<>>, <<>>, k)
    ELSE IF StartsWithDot(fn)
    THEN Terminate(s, fn, <<>>, << Ev("connect", <<>>) >> \o GetRefusal, k)
    ELSE IF ~Exists(sfs, fn)
    THEN Terminate(s, fn, <<>>,
                   << Ev("connect", <<>>), Ev("exists", fn) >> \o GetRefusal, k)
    ELSE Thread(s, "get_lock", TRUE, cmd, fn, sconn[s], <<>>,
                << Ev("connect", <<>>), Ev("exists", fn) >>, k)

\* get() up to the lock: connect, then the two refusals.
ServeGet(s, cmd, fn, port, k) ==
    IF ~CanConnect(s, port)
    THEN Crash(s, cmd, fn, <<>>, <<>>, k)
    ELSE IF StartsWithDot(fn)
    THEN Thread(s, "read", TRUE, cmd, fn, sconn[s], <<>>,
                << Ev("connect", <<>>) >> \o GetRefusal, k)
    ELSE IF ~Exists(sfs, fn)
    THEN Thread(s, "read", TRUE, cmd, fn, sconn[s], <<>>,
                << Ev("connect", <<>>), Ev("exists", fn) >> \o GetRefusal, k)
    ELSE Thread(s, "get_lock", TRUE, cmd, fn, sconn[s], <<>>,
                << Ev("connect", <<>>), Ev("exists", fn) >>, k)

\* put() up to the lock: connect.
ServePut(s, cmd, fn, port, k) ==
    IF ~CanConnect(s, port)
    THEN Crash(s, cmd, fn, <<>>, <<>>, k)
    ELSE Thread(s, "put_lock", TRUE, cmd, fn, sconn[s], <<>>, << Ev("connect", <<>>) >>, k)

\* serve_command for 'quit': 'S', then kill().  The send raises
\* BrokenPipeError when the client has already closed (ok = FALSE).
ServeQuit(s, cmd, fn, k, ok) ==
    IF ok
    THEN Terminate(s, fn, <<>>, << Ev("csend", StatusS) >>, k)
    ELSE Crash(s, cmd, fn, <<>>, <<>>, k)

\* serve_command: the handler for self.command, run to the first point
\* where it blocks.  A command that is none of get, put, ls, quit reaches the
\* last branch, whose log call names an undefined variable: NameError.
ServeCommand(s, cmd, fn, port, k, ok) ==
    IF cmd = TxtGet THEN ServeGet(s, cmd, fn, port, k)
    ELSE IF cmd = TxtPut THEN ServePut(s, cmd, fn, port, k)
    ELSE IF cmd = TxtLs THEN Thread(s, "ls", TRUE, cmd, fn, sconn[s], <<>>, <<>>, k)
    ELSE IF cmd = TxtQuit THEN ServeQuit(s, cmd, fn, k, ok)
    ELSE Crash(s, cmd, fn, <<>>, <<>>, k)

\* run()'s loop body when a whole control frame arrives: read_command, then
\* serve_command.
ServerRead(s, ok) ==
    /\ spc[s] = "read"
    /\ ControlReady(c2s[s])
    /\ ok \/ csock[s] = "closed"
    /\ LET size == UnpackB(Take(c2s[s], 1))
           port == UnpackH(SubSeq(c2s[s], 2, 3))
           raw  == SubSeq(c2s[s], 4, 3 + size)
           k    == sseq[s] + 1
       IN  /\ c2s' = [c2s EXCEPT ![s] = Drop(@, 3 + size)]
           /\ ephemeral' = [ephemeral EXCEPT ![s] = port]
           /\ sseq' = [sseq EXCEPT ![s] = k]
           /\ IF ~Utf8Valid(raw)
              THEN /\ Crash(s, command[s], filename[s], <<>>, <<>>, k)
                   /\ UNCHANGED stext
              ELSE LET rc == ReadCommand(Utf8Decode(raw), filename[s]) IN
                   /\ stext' = [stext EXCEPT ![s] = Utf8Decode(raw)]
                   /\ IF rc.kill
                      THEN Terminate(s, rc.filename, <<>>, <<>>, k)
                      ELSE ServeCommand(s, rc.command, rc.filename, port, k, ok)
    /\ UNCHANGED <<sfs, locked, sdatum, issued>>
    /\ UNCHANGED <<clientVars, envVars>>

\* _recv(1) in read_command when the client has closed the control
\* connection and nothing is left to read: recv returns b''.
ServerRecvEOF(s) ==
    /\ spc[s] = "read"
    /\ c2s[s] = <<>>
    /\ csock[s] = "closed"
    /\ spc' = [spc EXCEPT ![s] = "recv_datum"]
    /\ sdatum' = [sdatum EXCEPT ![s] = "eof"]
    /\ UNCHANGED <<sfs, locked, running, command, filename, ephemeral, sconn, sev,
                   sseq, stext>>
    /\ UNCHANGED <<c2s, s2c, dch, issued>>
    /\ UNCHANGED <<clientVars, envVars>>

\* _recv's loop after recv returned b'': the datum is appended,
\* num_bytes_read grows by 0, and the loop condition holds as before.
ServerRecvLoop(s) ==
    /\ spc[s] = "recv_datum"
    /\ spc' = [spc EXCEPT ![s] = "read"]
    /\ sdatum' = [sdatum EXCEPT ![s] = "none"]
    /\ UNCHANGED <<sfs, locked, running, command, filename, ephemeral, sconn, sev,
                   sseq, stext>>
    /\ UNCHANGED <<c2s, s2c, dch, issued>>
    /\ UNCHANGED <<clientVars, envVars>>

\* _recv(1) in read_command when recv raises (the connection was reset):
\* kill(), b'' is returned, read_command and serve_command each call kill()
\* again and run()'s loop ends.
ServerRecvReset(s) ==
    /\ spc[s] = "read"
    /\ c2s[s] = <<>>
    /\ csock[s] = "closed"
    /\ Terminate(s, filename[s], sev[s], <<>>, sseq[s])
    /\ UNCHANGED <<sfs, locked, ephemeral, sdatum, sseq, stext>>
    /\ UNCHANGED <<c2s, issued>>
    /\ UNCHANGED <<clientVars, envVars>>

\* A lock that is taken without waiting for its holder.
Acquire_NoWait == TRUE

\* Acquiring _FILE_LOCK blocks while another thread holds it.
Acquire == ~locked

\* ls(): the listing is taken under the lock; an empty listing sends 'F' and
\* goes on; then connect, the data frame, and 'S'.  After main's kill()
\* self.connection is None and the first send raises AttributeError.
ServerLs(s) ==
    /\ spc[s] = "ls"
    /\ Acquire
    /\ LET listing == Listing(sfs)
           first   == << Ev("lock", <<>>), Ev("listdir", <<>>), Ev("unlock", <<>>) >>
                      \o (IF listing = <<>> THEN << Ev("csend", StatusF) >> ELSE <<>>)
           frame   == PackI(Len(listing)) \o listing
       IN  IF sconn[s] = "none" /\ listing = <<>>
           THEN Crash(s, command[s], filename[s], <<>>, SubSeq(first, 1, 3), sseq[s])
           ELSE IF ~CanConnect(s, ephemeral[s])
           THEN Crash(s, command[s], filename[s], <<>>, first, sseq[s])
           ELSE IF sconn[s] = "none"
           THEN Crash(s, command[s], filename[s], <<>>,
                      first \o << Ev("connect", <<>>), Ev("dsend", frame) >>, sseq[s])
           ELSE Thread(s, "read", TRUE, command[s], filename[s], sconn[s], <<>>,
                       first \o << Ev("connect", <<>>), Ev("dsend", frame),
                                   Ev("csend", StatusS) >>, sseq[s])
    /\ UNCHANGED <<sfs, locked, ephemeral, sdatum, sseq, stext, c2s, issued>>
    /\ UNCHANGED <<clientVars, envVars>>

\* get() from the lock on: the file is read under the lock, sent as one data
\* frame, the data socket is shut down and closed, and 'S' is sent.
ServerGetLock(s) ==
    /\ spc[s] = "get_lock"
    /\ Acquire
    /\ LET underLock == << Ev("lock", <<>>), Ev("read", filename[s]), Ev("unlock", <<>>) >>
       IN  IF ~Utf8Valid(sfs[filename[s]])
           THEN Crash(s, command[s], filename[s], sev[s], underLock, sseq[s])
           ELSE LET frame == TextFrame(Utf8Decode(sfs[filename[s]])) IN
                IF sconn[s] = "none"
                THEN Crash(s, command[s], filename[s], sev[s],
                           underLock \o << Ev("dsend", frame), Ev("dclose", <<>>) >>,
                           sseq[s])
                ELSE Thread(s, "read", TRUE, command[s], filename[s], sconn[s], sev[s],
                            underLock \o << Ev("dsend", frame), Ev("dclose", <<>>),
                                            Ev("csend", StatusS) >>, sseq[s])
    /\ UNCHANGED <<sfs, locked, ephemeral, sdatum, sseq, stext, c2s, issued>>
    /\ UNCHANGED <<clientVars, envVars>>

\* The names put() refuses: a dot name, or a name that exists.
PutRefused_DotOnly(dir, fn) == StartsWithDot(fn)

PutRefused(dir, fn) == StartsWithDot(fn) \/ Exists(dir, fn)

\* put() from the lock on, up to the interim status: a refused name gets 'F'
\* and the lock is released; else 'S' is sent and the thread goes on to
\* receive, holding the lock.  A send that raises (ok = FALSE) leaves the
\* with block, which releases the lock.
ServerPutLock(s, ok) ==
    /\ spc[s] = "put_lock"
    /\ Acquire
    /\ ok => sconn[s] = "open"
    /\ ok \/ csock[s] = "closed" \/ sconn[s] = "none"
    /\ LET fn     == filename[s]
           tests  == IF StartsWithDot(fn) THEN <<>> ELSE << Ev("exists", fn) >>
           before == << Ev("lock", <<>>) >> \o tests
       IN  IF ~ok
           THEN /\ Crash(s, command[s], fn, sev[s], before \o << Ev("unlock", <<>>) >>,
                         sseq[s])
                /\ UNCHANGED locked
           ELSE IF PutRefused(sfs, fn)
           THEN /\ Thread(s, "read", TRUE, command[s], fn, sconn[s], sev[s],
                          before \o << Ev("csend", StatusF), Ev("unlock", <<>>),
                                       Ev("dclose", <<>>) >>, sseq[s])
                /\ UNCHANGED locked
           ELSE /\ Thread(s, "put_recv", TRUE, command[s], fn, sconn[s], sev[s],
                          before \o << Ev("csend", StatusS) >>, sseq[s])
                /\ locked' = TRUE
    /\ UNCHANGED <<sfs, ephemeral, sdatum, sseq, stext, c2s, issued>>
    /\ UNCHANGED <<clientVars, envVars>>

\* What _data_recv returns: the first payloadLength bytes after the 4-byte
\* header, or b'' when the peer closed before 4 bytes came.
DataRecv(bytes) == IF FrameReady(bytes) THEN FramePayload(bytes) ELSE <<>>

\* put() that releases the lock by hand, after the final status: an error
\* in between leaves it held.
ServerPutRecv_NoRelease(s, ok) ==
    /\ spc[s] = "put_recv"
    /\ FrameReady(dch[s].c2s) \/ (dch[s].c2s = <<>> /\ dch[s].cclosed)
    /\ ok => sconn[s] = "open"
    /\ ok \/ csock[s] = "closed" \/ sconn[s] = "none"
    /\ LET fn    == filename[s]
           data  == DataRecv(dch[s].c2s)
           valid == Utf8Valid(data)
           did   == << Ev("drecv", data) >>
                    \o (IF valid THEN << Ev("write", fn) >> ELSE <<>>)
           byte  == IF valid THEN StatusS ELSE StatusF
       IN  /\ sfs' = IF valid THEN WriteFile(sfs, fn, Utf8Encode(Utf8Decode(data)))
                     ELSE sfs
           /\ locked' = ~ok
           /\ IF ok
              THEN Thread(s, "read", TRUE, command[s], fn, sconn[s], sev[s],
                          did \o << Ev("csend", byte), Ev("unlock", <<>>),
                                    Ev("dclose", <<>>) >>, sseq[s])
              ELSE Crash(s, command[s], fn, sev[s], did \o << Ev("unlock", <<>>) >>,
                         sseq[s])
    /\ UNCHANGED <<ephemeral, sdatum, sseq, stext, c2s, issued>>
    /\ UNCHANGED <<clientVars, envVars>>

\* put() after the interim 'S', still holding the lock: _data_recv, decode,
\* write the file, send the final status, release the lock, close the data
\* socket.  The final 'S' is sent outside the try: if it raises (ok = FALSE)
\* the thread dies, the file written and the lock released.
ServerPutRecv(s, ok) ==
    /\ spc[s] = "put_recv"
    /\ FrameReady(dch[s].c2s) \/ (dch[s].c2s = <<>> /\ dch[s].cclosed)
    /\ ok => sconn[s] = "open"
    /\ ok \/ csock[s] = "closed" \/ sconn[s] = "none"
    /\ LET fn    == filename[s]
           data  == DataRecv(dch[s].c2s)
           valid == Utf8Valid(data)
           did   == << Ev("drecv", data) >>
                    \o (IF valid THEN << Ev("write", fn) >> ELSE <<>>)
           byte  == IF valid THEN StatusS ELSE StatusF
       IN  /\ sfs' = IF valid THEN WriteFile(sfs, fn, Utf8Encode(Utf8Decode(data)))
                     ELSE sfs
           /\ locked' = FALSE
           /\ IF ok
              THEN Thread(s, "read", TRUE, command[s], fn, sconn[s], sev[s],
                          did \o << Ev("csend", byte), Ev("unlock", <<>>),
                                    Ev("dclose", <<>>) >>, sseq[s])
              ELSE Crash(s, command[s], fn, sev[s], did \o << Ev("unlock", <<>>) >>,
                         sseq[s])
    /\ UNCHANGED <<ephemeral, sdatum, sseq, stext, c2s, issued>>
    /\ UNCHANGED <<clientVars, envVars>>

\* main, shutting down: kill() on thread s, after the join of the threads
\* before it in clients.  kill() clears running and command and, if the
\* connection is not None, shuts it down and closes it.  A thread blocked in
\* _recv wakes, finds self.connection None and leaves run(); a thread inside
\* a handler goes on with it.
MainKill(s) ==
    /\ ~killed[s]
    /\ \A t \in Sessions : t < s => killed[t] /\ spc[t] \in {"terminated", "crashed"}
    /\ killed' = [killed EXCEPT ![s] = TRUE]
    /\ running' = [running EXCEPT ![s] = FALSE]
    /\ command' = [command EXCEPT ![s] = NoText]
    /\ sconn' = [sconn EXCEPT ![s] = "none"]
    /\ sev' = [sev EXCEPT ![s] =
                 IF sconn[s] = "open" THEN Append(@, Ev("cclose", <<>>)) ELSE @]
    /\ spc' = [spc EXCEPT ![s] =
                 IF @ \in {"read", "recv_datum"} THEN "terminated" ELSE @]
    /\ UNCHANGED <<sfs, locked, filename, ephemeral, sdatum, sseq, stext>>
    /\ UNCHANGED <<c2s, s2c, dch, issued, chost>>
    /\ UNCHANGED <<cfs, cpc, ccmd, cdata, csock, cseq, cstat, cput>>

\* ------------------------------------------------------------ specification

ClientStep(s) ==
    \/ \E t \in UserInputs : UserInput(s, t)
    \/ \E t \in ForeignTexts : ForeignFrame(s, t)
    \/ ClientEOF(s)
    \/ ClientRecvData(s)
    \/ ClientAcceptTimeout(s)
    \/ ClientStatus(s)
    \/ ClientPutInterim(s)
    \/ ClientStatusTimeout(s)

ServerStep(s) ==
    \/ \E ok \in BOOLEAN : ServerRead(s, ok)
    \/ ServerRecvEOF(s)
    \/ ServerRecvLoop(s)
    \/ ServerRecvReset(s)
    \/ ServerLs(s)
    \/ ServerGetLock(s)
    \/ \E ok \in BOOLEAN : ServerPutLock(s, ok)
    \/ \E ok \in BOOLEAN : ServerPutRecv(s, ok)

Next == \E s \in Sessions : ClientStep(s) \/ ServerStep(s) \/ MainKill(s)

Spec == Init /\ [][Next]_vars

\* The same program when one more input is accepted at the prompts, with the
\* operating system scheduling every server thread that can run.
LastInputInit ==
    /\ sfs \in ServerDirs
    /\ locked = FALSE
    /\ cfs = [s \in Sessions |-> ClientDir(s)]
    /\ cpc = [s \in Sessions |-> "prompt"]
    /\ ccmd = [s \in Sessions |-> NoText]
    /\ cdata = [s \in Sessions |-> NoText]
    /\ csock = [s \in Sessions |-> "open"]
    /\ c2s = [s \in Sessions |-> <<>>]
    /\ s2c = [s \in Sessions |-> <<>>]
    /\ dch = [s \in Sessions |-> NoData]
    /\ spc = [s \in Sessions |-> "read"]
    /\ running = [s \in Sessions |-> TRUE]
    /\ command = [s \in Sessions |-> NoText]
    /\ filename = [s \in Sessions |-> NoText]
    /\ ephemeral = [s \in Sessions |-> 0]
    /\ sconn = [s \in Sessions |-> "open"]
    /\ sdatum = [s \in Sessions |-> "none"]
    /\ sev = [s \in Sessions |-> <<>>]
    /\ sseq = [s \in Sessions |-> 0]
    /\ stext = [s \in Sessions |-> NoText]
    /\ cseq = [s \in Sessions |-> 0]
    /\ cstat = [s \in Sessions |-> <<>>]
    /\ cput = [s \in Sessions |-> NoText]
    /\ issued = MaxCmds - 1
    /\ chost \in [Sessions -> Hosts]
    /\ killed = [s \in Sessions |-> FALSE]

FairSpec ==
    /\ LastInputInit
    /\ [][Next]_vars
    /\ \A s \in Sessions : WF_vars(ServerStep(s))

\* --------------------------------------------- the control frame, by itself

\* A one-character filename that is not ASCII: U+00E9.
NameE == Txt(<<"E">>)

\* n times the character c.
Rep(c, n) == [i \in 1..n |-> c]

\* Valid commands: short ones, and gets of names that make the command 255
\* characters and 255 bytes, 256 of each, and 255 characters but 256 bytes.
CodecTexts ==
    { TxtLs, TxtQuit,
      TxtGet \o Sp \o NameA, TxtPut \o Sp \o NameB, TxtGet \o Sp \o NameDot,
      TxtPut \o Sp \o NameA \o NameB, TxtGet \o Sp \o NameE,
      TxtGet \o Sp \o Rep(97, 251),
      TxtGet \o Sp \o Rep(97, 252),
      TxtGet \o Sp \o Rep(97, 250) \o NameE }

\* Data ports: both ends of the range, both sides of the byte boundary, and
\* an ephemeral one.
CodecPorts == {0, 255, 256, 49153, 65535}

\* The client encodes one command: execute_command's literal frame for quit,
\* pack_and_send's frame for the others, with the port the operating system
\* gave the listening socket.
CodecSend(s, text, port) ==
    /\ cpc[s] = "prompt"
    /\ spc[s] = "read"
    /\ c2s[s] = <<>>
    /\ GetCommand(text) # NoText
    /\ issued < MaxCmds
    /\ issued' = issued + 1
    /\ ccmd' = [ccmd EXCEPT ![s] = text]
    /\ IF text = TxtQuit
       THEN /\ c2s' = [c2s EXCEPT ![s] = QuitFrame]
            /\ dch' = [dch EXCEPT ![s] = NoData]
            /\ cseq' = [cseq EXCEPT ![s] = @ + 1]
            /\ cpc' = [cpc EXCEPT ![s] = "xfer"]
            /\ UNCHANGED csock
       ELSE IF Len(text) > 255
       THEN /\ ClientGone(s)
            /\ UNCHANGED <<c2s, cseq>>
       ELSE /\ c2s' = [c2s EXCEPT ![s] = ControlFrame(text, port)]
            /\ dch' = [dch EXCEPT ![s] = [NoData EXCEPT !.listen = TRUE, !.port = port]]
            /\ cseq' = [cseq EXCEPT ![s] = @ + 1]
            /\ cpc' = [cpc EXCEPT ![s] = "xfer"]
            /\ UNCHANGED csock
    /\ UNCHANGED <<cfs, cdata, cstat, cput, s2c>>
    /\ UNCHANGED <<serverVars, envVars>>

\* The server decodes it: read_command alone, without serve_command.  The
\* decode of the command text raises UnicodeDecodeError on bytes that are not
\* UTF-8, which nothing catches.
CodecRead(s) ==
    /\ spc[s] = "read"
    /\ ControlReady(c2s[s])
    /\ LET size == UnpackB(Take(c2s[s], 1))
           port == UnpackH(SubSeq(c2s[s], 2, 3))
           raw  == SubSeq(c2s[s], 4, 3 + size)
       IN  /\ c2s' = [c2s EXCEPT ![s] = Drop(@, 3 + size)]
           /\ ephemeral' = [ephemeral EXCEPT ![s] = port]
           /\ sseq' = [sseq EXCEPT ![s] = @ + 1]
           /\ IF ~Utf8Valid(raw)
              THEN /\ spc' = [spc EXCEPT ![s] = "crashed"]
                   /\ UNCHANGED <<stext, command, filename, running, sconn>>
              ELSE LET rc == ReadCommand(Utf8Decode(raw), filename[s]) IN
                   /\ stext' = [stext EXCEPT ![s] = Utf8Decode(raw)]
                   /\ command' = [command EXCEPT ![s] = rc.command]
                   /\ filename' = [filename EXCEPT ![s] = rc.filename]
                   /\ running' = [running EXCEPT ![s] = ~rc.kill]
                   /\ sconn' = [sconn EXCEPT ![s] = IF rc.kill THEN "none" ELSE @]
                   /\ spc' = [spc EXCEPT ![s] = IF rc.kill THEN "terminated" ELSE @]
    /\ cpc' = [cpc EXCEPT ![s] = "prompt"]
    /\ UNCHANGED <<sfs, locked, sdatum, sev, issued, s2c, dch>>
    /\ UNCHANGED <<cfs, ccmd, cdata, csock, cseq, cstat, cput, envVars>>

CodecNext ==
    \E s \in Sessions :
        \/ \E text \in CodecTexts, port \in CodecPorts : CodecSend(s, text, port)
        \/ CodecRead(s)

\* One server directory and one placement are enough for the frame.
CodecInit == Init /\ sfs = EmptyDir /\ chost = [s \in Sessions |-> ServerHost]

CodecSpec == CodecInit /\ [][CodecNext]_vars

\* ------------------------------------------------------------------ claims

\* The status bytes the server thread sent for the frame it last read.
Statuses(s) == [i \in 1..Len(Only(sev[s], {"csend"})) |-> Only(sev[s], {"csend"})[i].arg]

\* The server thread is inside put()'s with block between two steps.
InWriteSection(s) == spc[s] = "put_recv"

\* The handler for the frame the thread last read has returned.
Served(s, cmd) == spc[s] = "read" /\ command[s] = cmd /\ sseq[s] > 0

\* The put the thread last served was accepted and reported 'S', and the
\* client's upload of it is the data frame on the data connection.
PutReportedS(s) ==
    /\ Served(s, TxtPut)
    /\ Statuses(s) = << StatusS, StatusS >>
    /\ dch[s].c2s # <<>>
    /\ dch[s].c2s = TextFrame(cput[s])

\* C1: two sessions put different new names: at most one thread is in the
\* write section (holds the file lock) at any time, and once both puts have
\* reported the final 'S' each file holds exactly the bytes its own client
\* sent.
C1_ConcurrentPuts ==
    /\ Cardinality({s \in Sessions : InWriteSection(s)}) <= 1
    /\ \A s, t \in Sessions :
         (s # t /\ PutReportedS(s) /\ PutReportedS(t) /\ filename[s] # filename[t])
         => /\ sfs[filename[s]] = Utf8Encode(cput[s])
            /\ sfs[filename[t]] = Utf8Encode(cput[t])

\* The part of C1 that is about the lock alone.
LockMutex ==
    /\ Cardinality({s \in Sessions : InWriteSection(s)}) <= 1
    /\ locked <=> \E s \in Sessions : InWriteSection(s)

\* A name whose first character is '.'.
IsDotName(n) == n # <<>> /\ Head(n) = Ord["."]

\* C2: a put of a name that exists when the server checks it is answered
\* 'F', receives no payload and changes nothing in the directory; and no
\* step of any session changes or removes a file that exists.
C2_ExistingFileKept ==
    [][ /\ \A n \in DOMAIN sfs : n \in DOMAIN sfs' /\ sfs'[n] = sfs[n]
        /\ \A s \in Sessions :
             (/\ spc[s] = "put_lock"
              /\ spc'[s] \in {"read", "put_recv"}
              /\ filename[s] \in DOMAIN sfs)
             => /\ spc'[s] = "read"
                /\ Statuses(s)' = << StatusF >>
                /\ s2c'[s] = Append(s2c[s], [b |-> Ord["F"], k |-> sseq[s]])
                /\ Only(sev'[s], {"drecv", "write"}) = <<>>
                /\ sfs' = sfs
      ]_vars

\* Two sessions have put the same new name: one created the file, the other
\* was refused.
C2_Witness ==
    \E s, t \in Sessions :
        /\ s # t
        /\ Served(s, TxtPut) /\ Statuses(s) = << StatusS, StatusS >>
        /\ Served(t, TxtPut) /\ Statuses(t) = << StatusF >>
        /\ filename[s] = filename[t]
        /\ ~IsDotName(filename[t])
        /\ filename[t] \in DOMAIN sfs

\* C3: while and after the server handles a get or a put of a name that
\* starts with '.', it has made no existence check, read, write or listing,
\* the name is not in the directory, the handler does not go on to the file,
\* and once the handler has returned the status it sent is exactly 'F'.
C3_DotNames ==
    /\ \A n \in DOMAIN sfs : ~IsDotName(n)
    /\ \A s \in Sessions :
         (command[s] \in {TxtGet, TxtPut} /\ IsDotName(filename[s]))
         => /\ Only(sev[s], {"exists", "read", "write", "listdir"}) = <<>>
            /\ spc[s] \notin {"get_lock", "put_recv"}
            /\ spc[s] = "read" => Statuses(s) = << StatusF >>

\* One session has been served a get of a dot name, the other a put of one.
C3_Witness ==
    \E s, t \in Sessions :
        /\ Served(s, TxtGet) /\ IsDotName(filename[s]) /\ Statuses(s) = << StatusF >>
        /\ Served(t, TxtPut) /\ IsDotName(filename[t]) /\ Statuses(t) = << StatusF >>

\* C4: after the server has handled a get of a name that does not exist, what
\* it sent is, in this order, the data frame 00 00 00 00 and the status 'F',
\* it never took the lock, and that frame is all the data connection carries.
C4_GetMissing ==
    \A s \in Sessions :
        (Served(s, TxtGet) /\ ~IsDotName(filename[s]) /\ filename[s] \notin DOMAIN sfs)
        => /\ Only(sev[s], {"dsend", "csend", "lock", "read"})
                = << Ev("dsend", <<0, 0, 0, 0>>), Ev("csend", StatusF) >>
           /\ cseq[s] = sseq[s] => dch[s].s2c = <<0, 0, 0, 0>>

C4_Witness ==
    \E s \in Sessions :
        /\ Served(s, TxtGet) /\ ~IsDotName(filename[s]) /\ filename[s] \notin DOMAIN sfs
        /\ Statuses(s) = << StatusF >>
        /\ dch[s].s2c = <<0, 0, 0, 0>>

\* C5: every status byte the client read for its current command was sent
\* by the server for that same command; no status byte is unread when the
\* client is at its prompt; an ls and a get are answered with one status
\* byte, a put with 'F', or with 'S' and one final status.
C5_StatusPairing ==
    \A s \in Sessions :
        /\ \A i \in DOMAIN cstat[s] : cstat[s][i].k = cseq[s]
        /\ cpc[s] = "prompt" => s2c[s] = <<>>
        /\ (Served(s, TxtLs) \/ Served(s, TxtGet)) => Len(Statuses(s)) = 1
        /\ Served(s, TxtPut)
           => Statuses(s) \in { << StatusF >>, << StatusS, StatusS >>,
                                << StatusS, StatusF >> }

\* C6: the client's directory changes only when the server answered the get
\* the client is executing with 'S'.
C6_GetWritesOnlyOnS ==
    [][ \A s \in Sessions :
          cfs'[s] # cfs[s]
          => /\ sseq[s] = cseq[s]
             /\ command[s] = TxtGet
             /\ Statuses(s) = << StatusS >>
      ]_vars

\* C7: a server thread waiting for a control frame on a connection the
\* client has closed reads no further frame and eventually terminates.
C7_ClosedClientTerminates ==
    /\ [][ \A s \in Sessions :
             (csock[s] = "closed" /\ spc[s] = "read" /\ c2s[s] = <<>>)
             => sseq'[s] = sseq[s] ]_vars
    /\ \A s \in Sessions :
         (csock[s] = "closed" /\ spc[s] = "read" /\ c2s[s] = <<>>)
         ~> (spc[s] = "terminated")

\* The command texts of the protocol: 'ls', 'quit', and two tokens of which
\* the first is 'get' or 'put'.
ValidText(t) ==
    \/ t = TxtLs
    \/ t = TxtQuit
    \/ Len(Split(t)) = 2 /\ Split(t)[1] \in {TxtGet, TxtPut}

\* C8: after reading a control frame whose text is not a command of the
\* protocol, the thread has terminated: it ran no handler, opened no data
\* connection, shut down and closed the control connection, and left its
\* loop.
C8_BadFrameTerminates ==
    \A s \in Sessions :
        (sseq[s] > 0 /\ ~ValidText(stext[s]))
        => /\ spc[s] = "terminated"
           /\ ~running[s]
           /\ sconn[s] = "none"
           /\ sev[s] = << Ev("cclose", <<>>) >>

\* The step in which the client's accept times out: it is waiting in accept,
\* the server has not connected, and the client leaves the accept.
AcceptTimesOut(s) ==
    /\ cpc[s] \in {"xfer", "put_wait"}
    /\ ~dch[s].conn
    /\ cpc'[s] # cpc[s]

\* C9, as stated: an accept timeout returns the client to its prompt with
\* the control connection open.
C9_TimeoutKeepsSession ==
    [][ \A s \in Sessions :
          AcceptTimesOut(s) => cpc'[s] = "prompt" /\ csock'[s] = "open" ]_vars

\* C9, amended: an accept timeout ends the client session: the control
\* connection is closed, nothing more is sent on it, and the client exits.
C9_TimeoutEndsSession ==
    [][ \A s \in Sessions :
          AcceptTimesOut(s)
          => /\ cpc'[s] = "exited"
             /\ csock'[s] = "closed"
             /\ c2s'[s] = c2s[s]
             /\ ~dch'[s].listen ]_vars

\* A client has exited from an accept the server never answered.
C9_Witness ==
    \E s \in Sessions :
        /\ cpc[s] = "exited"
        /\ csock[s] = "closed"
        /\ dch[s].port # 0
        /\ ~dch[s].conn

\* The inputs the protocol calls local user errors, for a client whose
\* directory is dir.
LocalUserError(t, dir) ==
    \/ ~ValidText(t)
    \/ Split(t)[1] = TxtGet /\ Split(t)[2] \in DOMAIN dir
    \/ Split(t)[1] = TxtPut /\ Split(t)[2] \notin DOMAIN dir

\* C10: a line typed at the prompt that is a local user error sends nothing
\* on the control connection, opens no listening socket and leaves the
\* client at its prompt with the control connection open.
C10_LocalErrorsStayLocal ==
    [][ \A s \in Sessions :
          (/\ cpc[s] = "prompt"
           /\ issued' # issued
           /\ cpc'[s] # "foreign"
           /\ LocalUserError(ccmd'[s], cfs[s]))
          => /\ c2s'[s] = c2s[s]
             /\ dch'[s] = dch[s]
             /\ cpc'[s] = "prompt"
             /\ csock'[s] = "open" ]_vars

\* The thread has answered the get or put it last read with the one status
\* 'F': the name starts with '.', or is missing (get), or exists (put).
RefusedWithF(s) ==
    /\ sseq[s] > 0
    /\ Len(Split(stext[s])) = 2
    /\ Split(stext[s])[1] \in {TxtGet, TxtPut}
    /\ Statuses(s) = << StatusF >>

\* The text of the control frame at the head of bytes.
FrameText(bytes) == Utf8Decode(SubSeq(bytes, 4, 3 + UnpackB(Take(bytes, 1))))

\* C11: a thread that answered a get or put with 'F' is, for as long as the
\* client stays connected and the server is not shut down, still running, at read_command, its control
\* connection open; the client that reads that 'F'
\* returns to its prompt with the control connection open; and the next
\* frame with a valid command is read by the same thread, which stores the
\* command and goes on to its handler instead of terminating.
C11_RefusalKeepsSession ==
    /\ [](\A s \in Sessions :
            (RefusedWithF(s) /\ csock[s] = "open" /\ ~killed[s])
            => spc[s] = "read" /\ running[s] /\ sconn[s] = "open")
    /\ [][ \A s \in Sessions :
             /\ (/\ s2c[s] # <<>>
                 /\ s2c'[s] = Tail(s2c[s])
                 /\ << Head(s2c[s]).b >> = StatusF
                 /\ \/ cpc[s] = "status" /\ Take(ccmd[s], 3) = TxtGet
                    \/ cpc[s] = "put_wait")
                => cpc'[s] = "prompt" /\ csock'[s] = "open"
             /\ (/\ RefusedWithF(s)
                 /\ sseq'[s] # sseq[s]
                 /\ ~killed[s]
                 /\ ValidText(FrameText(c2s[s]))
                 /\ FrameText(c2s[s]) # TxtQuit)
                => /\ stext'[s] = FrameText(c2s[s])
                   /\ command'[s] = Split(FrameText(c2s[s]))[1]
                   /\ spc'[s] # "terminated"
                   /\ sconn'[s] = "open"
       ]_vars

\* A refused get or put has been answered and read, and the client's next
\* command has reached the same thread.
C11_Witness ==
    \E s \in Sessions :
        /\ RefusedWithF(s)
        /\ ~killed[s]
        /\ cseq[s] = sseq[s] + 1
        /\ csock[s] = "open"
        /\ ControlReady(c2s[s])
        /\ ValidText(FrameText(c2s[s]))

\* The command in ccmd has been encoded, and the frame decoded.
Decoded(s) == sseq[s] > 0 /\ sseq[s] = cseq[s] /\ cpc[s] = "prompt"

\* C12: the command text, the command, the filename and the port the server
\* has after decoding a frame are the ones the client encoded.
C12_ControlRoundTrip ==
    \A s \in Sessions :
        Decoded(s)
        => /\ spc[s] = "read"
           /\ stext[s] = ccmd[s]
           /\ ephemeral[s] = dch[s].port
           /\ command[s] = Split(ccmd[s])[1]
           /\ Len(Split(ccmd[s])) = 2 => filename[s] = Split(ccmd[s])[2]
           /\ c2s[s] = <<>>

\* The frame cli.py has written is still unread.
InFlight(s) == cpc[s] = "xfer" /\ c2s[s] # <<>>

\* C13: a frame in flight has a length byte equal to the number of
\* command-text bytes that follow the header, which are the command's UTF-8
\* bytes, at most 255 of them; a command of 256 bytes or more was refused
\* with nothing written and no listening socket open; a command of 255
\* bytes or fewer was sent.
C13_LengthLimit ==
    \A s \in Sessions :
        /\ InFlight(s)
           => /\ UnpackB(Take(c2s[s], 1)) = Len(c2s[s]) - 3
              /\ Drop(c2s[s], 3) = Utf8Encode(ccmd[s])
              /\ Len(Utf8Encode(ccmd[s])) <= 255
        /\ Len(Utf8Encode(ccmd[s])) >= 256
           => c2s[s] = <<>> /\ ~dch[s].listen /\ cpc[s] # "xfer"
        /\ (ccmd[s] # NoText /\ Len(Utf8Encode(ccmd[s])) <= 255)
           => cpc[s] # "exited"

\* C14: an exact read that meets the end of the connection before its bytes
\* have come ends as a failure.  _recv, once recv has returned b'', ends the
\* session without reading a command; and a put whose _data_recv did not get
\* a whole data frame writes no file and does not report 'S'.
C14_ExactRead ==
    /\ [][ \A s \in Sessions :
             (spc[s] = "recv_datum" /\ sdatum[s] = "eof" /\ spc'[s] # spc[s])
             => spc'[s] = "terminated" /\ sseq'[s] = sseq[s] ]_vars
    /\ [](\A s \in Sessions :
            (/\ cseq[s] = sseq[s]
             /\ Only(sev[s], {"drecv"}) # <<>>
             /\ ~FrameReady(dch[s].c2s))
            => /\ Only(sev[s], {"write"}) = <<>>
               /\ Statuses(s) # << StatusS, StatusS >>)

\* The second half of C14 alone: the data connection of a put.
C14_DataRead ==
    \A s \in Sessions :
        (/\ cseq[s] = sseq[s]
         /\ Only(sev[s], {"drecv"}) # <<>>
         /\ ~FrameReady(dch[s].c2s))
        => /\ Only(sev[s], {"write"}) = <<>>
           /\ Statuses(s) # << StatusS, StatusS >>

\* The thread has been through _data_recv for the put the client last sent.
PutReceived(s) == cseq[s] = sseq[s] /\ Only(sev[s], {"drecv"}) # <<>>

\* C15: a put that has reported the final 'S' has created the file with
\* exactly the bytes the client wrote after the data frame's header, and
\* these are a whole data frame; a put whose data connection did not bring a
\* whole frame reports 'F' when it reports.
C15_PutFinalStatus ==
    \A s \in Sessions :
        /\ (PutReceived(s) /\ Statuses(s) = << StatusS, StatusS >>)
           => /\ FrameReady(dch[s].c2s)
              /\ filename[s] \in DOMAIN sfs
              /\ sfs[filename[s]] = Drop(dch[s].c2s, 4)
        /\ (PutReceived(s) /\ ~FrameReady(dch[s].c2s) /\ Len(Statuses(s)) = 2)
           => Statuses(s) = << StatusS, StatusF >>

\* C17: the client has shut its data connection when it waits for the
\* terminal status; a handler that has returned connected one data socket,
\* once, and shut it down and closed it.
C17_DataConnectionClosed ==
    \A s \in Sessions :
        /\ cpc[s] = "status" => dch[s].conn /\ dch[s].cclosed
        /\ (Served(s, TxtLs) \/ Served(s, TxtGet) \/ Served(s, TxtPut))
           => /\ Len(Only(sev[s], {"connect"})) = 1
              /\ Len(Only(sev[s], {"dclose"})) = 1

\* Whether the thread held the lock when it did the i-th entry of evs.
HeldAt(evs, i) ==
    Len(Only(SubSeq(evs, 1, i - 1), {"lock"}))
        > Len(Only(SubSeq(evs, 1, i - 1), {"unlock"}))

\* C18: a thread connects its data socket and sends on it without the lock;
\* a put checks the name, receives the upload and writes the file with the
\* lock, and holds it while it waits for the upload; while it does, no other
\* thread that is at the lock for its listing, its file read or its put
\* moves.
C18_LockScope ==
    /\ [](\A s \in Sessions :
            /\ \A i \in DOMAIN sev[s] :
                 /\ sev[s][i].op \in {"connect", "dsend"} => ~HeldAt(sev[s], i)
                 /\ sev[s][i].op \in {"listdir", "read", "drecv", "write"}
                    => HeldAt(sev[s], i)
                 /\ (sev[s][i].op = "exists" /\ Split(stext[s])[1] = TxtPut)
                    => HeldAt(sev[s], i)
            /\ spc[s] = "put_recv" => locked)
    /\ [][ \A s, t \in Sessions :
             (/\ s # t
              /\ spc[s] = "put_recv"
              /\ spc[t] \in {"ls", "get_lock", "put_lock"})
             => /\ spc'[t] = spc[t]
                /\ Only(sev'[t], {"lock", "listdir", "read", "exists", "csend"})
                       = Only(sev[t], {"lock", "listdir", "read", "exists", "csend"})
       ]_vars

\* An accepted put waits for its upload while the other session's get is at
\* the lock for the file read.
C18_Witness ==
    \E s, t \in Sessions :
        /\ s # t
        /\ spc[s] = "put_recv"
        /\ ~FrameReady(dch[s].c2s)
        /\ spc[t] = "get_lock"

\* The thread took the lock more often than it released it, over what it did
\* for the frame it last read.
HoldsLock(s) == HeldAt(sev[s], Len(sev[s]) + 1)

\* C20: a thread that is at read_command, or has ended, by returning or by
\* an exception, does not hold the lock; the lock is held only by a thread
\* inside put()'s with block.
C20_LockReleased ==
    /\ \A s \in Sessions :
         spc[s] \in {"read", "recv_datum", "terminated", "crashed"} => ~HoldsLock(s)
    /\ locked => \E s \in Sessions : spc[s] = "put_recv" /\ HoldsLock(s)

\* A thread has died of an exception raised inside put()'s with block, after
\* the upload, and the lock is free.
C20_Witness ==
    \E s \in Sessions :
        /\ spc[s] = "crashed"
        /\ Only(sev[s], {"drecv"}) # <<>>
        /\ ~locked

\* The thread has ended: run() returned, or an exception left it.
Ended(s) == spc[s] \in {"terminated", "crashed"}

\* C16: a thread that has ended has shut down and closed its control
\* connection, once; and from then on it reads no frame, runs no handler and
\* stays ended.
C16_TerminatedIsFinal ==
    /\ [](\A s \in Sessions :
            Ended(s) => sconn[s] = "none" /\ Len(Only(sev[s], {"cclose"})) = 1)
    /\ [][ \A s \in Sessions :
             Ended(s)
             => /\ spc'[s] = spc[s]
                /\ sseq'[s] = sseq[s]
                /\ c2s'[s] = c2s[s] \/ Len(c2s'[s]) > Len(c2s[s])
                /\ Len(Only(sev'[s], {"cclose"})) <= 1
       ]_vars

\* A command that cli.py sends with a data port: ls, a get of a name not in
\* the client's directory, a put of one that is.
Transfer(t, dir) ==
    /\ GetCommand(t) # NoText
    /\ Len(t) <= 255
    /\ \/ t = TxtLs
       \/ Take(t, 3) = TxtGet /\ ~Exists(dir, Split(t)[2])
       \/ Take(t, 3) = TxtPut /\ Exists(dir, Split(t)[2])

\* C19: the address a thread connects its data socket to is the address of
\* the client on the control connection, with the port of the frame; the
\* client listens on an address of its own host; and on whatever host the
\* client runs, a transfer command typed at its prompt leaves it listening,
\* with the command sent.
C19_DataAddress ==
    /\ [](\A s \in Sessions :
            /\ (sseq[s] > 0 /\ command[s] \in {TxtLs, TxtGet, TxtPut})
               => ClientHost(s) = GetPeerName(s)
            /\ dch[s].listen => BindHost(s) = chost[s])
    /\ [][ \A s \in Sessions :
             (/\ cpc[s] = "prompt"
              /\ issued' # issued
              /\ cpc'[s] # "foreign"
              /\ Transfer(ccmd'[s], cfs[s]))
             => /\ cpc'[s] \in {"xfer", "put_wait"}
                /\ dch'[s].listen
                /\ dch'[s].port = UnpackH(SubSeq(c2s'[s], Len(c2s[s]) + 2, Len(c2s[s]) + 3))
       ]_vars

====
